---- MODULE Spec2Model ----
(***************************************************************************)
(* Model of the video assembly pipeline of youtube-automation-suite       *)
(* (src/src/video_assembler.py).  The state is the part of the filesystem  *)
(* the assembler reads and writes (temp_files directory, final videos),    *)
(* the local variables of process_all_parts / create_animated_slideshow,   *)
(* and the position of the single Python process.  Every external command  *)
(* (ffprobe, ffmpeg) is a blocking call whose exit status is chosen        *)
(* nondeterministically.  SpecSlide runs create_animated_slideshow alone   *)
(* on any image list; SpecAudio runs the chunk loops of the audio          *)
(* generators (src/src/audio_generator.py, audio_generator_gemini.py).     *)
(*                                                                         *)
(* Part numbers are the digit strings found in the file names; a string    *)
(* is a sequence of digits (<<1,0>> is "10", <<0,2>> is "02").             *)
(* Durations are exact rationals counted in ticks of 1/TicksPerSecond s.   *)
(***************************************************************************)
EXTENDS Integers, Sequences, FiniteSets, TLC

\* ------------------------------------------------------------------ bounds
MaxRuns == 2          \* executions against the same book directory
MaxParts == 2         \* audio files present in one run
MaxImages == 2        \* images present for one part

\* ------------------------------------------------------- program constants
FPS == 24
NumPresets == 4
TicksPerSecond == 48

\* --------------------------------------------------------------- universes
\* part numbers as they appear in file names: "2", "10", "02"
PartNames == {<<2>>, <<1, 0>>, <<0, 2>>}
Overlays == {"fx_a", "fx_b"}
NoOverlay == "None"
\* what glob finds in the overlay directory (line 136): nothing, one file, two
OverlayListings == {{}, {"fx_a"}, Overlays}
NoDuration == -1
\* ffprobe answers: failure, 0.0 s, 1/48 s, 97/48 s
ProbeAnswers == {NoDuration, 0, 1, 97}
PLACEHOLDER == 0
\* result.returncode of a command that has not been run
NoReturnCode == -1

\* A file is absent, left by an earlier run, or written by the current run
\* (completely, or incompletely by a command that failed).
NoFile == [origin |-> "none", ok |-> FALSE, kind |-> "none"]
StaleFile == [origin |-> "earlier", ok |-> FALSE, kind |-> "stale"]
File(complete, k) == [origin |-> "current", ok |-> complete, kind |-> k]
Aged(f) == IF f = NoFile THEN NoFile ELSE StaleFile

\* all enumeration orders of a finite set (the order glob.glob may return)
Orderings(S) ==
    {f \in [1..Cardinality(S) -> S] : \A a, b \in 1..Cardinality(S) : a # b => f[a] # f[b]}

Range(s) == {s[k] : k \in 1..Len(s)}

\* ---------------------------------------------------------------- natsort
\* the integer a digit run stands for
RECURSIVE NumVal(_)
NumVal(s) == IF s = <<>> THEN 0 ELSE 10 * NumVal(SubSeq(s, 1, Len(s) - 1)) + s[Len(s)]

\* insert x behind every element whose key is <= key(x): a stable sort
RECURSIVE InsertByKey(_, _)
InsertByKey(x, sorted) ==
    IF sorted = <<>> THEN <<x>>
    ELSE IF NumVal(Head(sorted)) <= NumVal(x)
         THEN <<Head(sorted)>> \o InsertByKey(x, Tail(sorted))
         ELSE <<x>> \o sorted

\* natsorted() on paths that differ only in one digit run
RECURSIVE natsorted(_)
natsorted(s) ==
    IF s = <<>> THEN <<>>
    ELSE InsertByKey(s[Len(s)], natsorted(SubSeq(s, 1, Len(s) - 1)))

\* line 135: the audio files in processing order
unsorted_audio(listing) == listing
sorted_audio_files(listing) == natsorted(listing)

\* line 206: the processed segments in concatenation order
unsorted_segments(listing) == listing
sorted_processed_segments(listing) == natsorted(listing)

\* line 63: int(image_duration * 24), image_duration = total_duration / len(images)
frames_of(total_duration, n) == (total_duration * FPS) \div (n * TicksPerSecond)

VARIABLES
    pc,                 \* position of the process
    run,                \* number of executions started so far
    entry,              \* "main" (the __main__ block) or "concat" (direct call)
    audio_glob,         \* set of audio part numbers glob found (line 135)
    audio_files,        \* natsorted list of audio part numbers
    overlay_files,      \* overlays found by glob (line 136)
    idx,                \* 1-based position of the loop of line 149
    successful_parts,
    ret,                \* result of process_all_parts: "none", "true", "false"
    summary,            \* the processing summary (lines 198-199) was printed
    visited,            \* part numbers the loop body was entered for, in order
    results,            \* outcome of each finished part, aligned with visited
    overlays_used,      \* overlays chosen for the parts composited in this run
    images,             \* image list of the current part: <<part, image number>>
    duration,           \* probed duration of the current part, in ticks
    duration_in_frames,
    img,                \* 1-based position of the loop of line 79
    temp_clips,         \* image positions (0-based) whose clip is in temp_clips
    effects,            \* <<position, effect>> of each animation command run
    existing_clips,     \* clips written to the part's concat list, in order
    outcomes,           \* what happened to each image of the loop of line 79
    stitch_rc,          \* exit status of the stitching command (line 120)
    clip_files,         \* i with temp_clip_<part>_<i>.mp4 on disk, current part
    list_file,          \* animated_clips_<part>.txt is on disk, current part
    placeholder_file,   \* placeholder_<part>.png is on disk, current part
    slideshow_file,     \* slideshow_<part>.mp4 of the current part
    segments,           \* processed_segment_<part>.mp4 files on disk
    final_concat_list,  \* final_concat_list.txt as written by this run
    final_video,        \* <title>_final_video.mp4
    final_music_video,  \* <title>_final_video_with_music.mp4
    video_with_narration, \* result of concatenate_final_video (line 276)
    calls,              \* functions and tools invoked in the current run
    generator,          \* the audio generator that is running, or "none"
    gen_pc,             \* "idle", "loop" (in the chunk loop) or "done"
    script_chunks,      \* number of script chunks the generator was given
    chunk_i,            \* 1-based position of the generator's loop
    attempted,          \* chunks the text-to-speech service was called for
    audio_parts,        \* n with audio_part_<n> in the audio directory
    audio_at_start,     \* audio_parts as the generator found it
    audio_written,      \* n whose audio file this invocation created or rewrote
    split,              \* the frame of a call of split_script
    script_gen,         \* a script generator run and the chunks directory
    image_gen,          \* the image stage and the images directory
    job                 \* the frame of create_job_file and its manifest

assembler_vars == <<pc, run, entry, audio_glob, audio_files, overlay_files, idx,
          successful_parts, ret, summary, visited, results, overlays_used,
          images, duration, duration_in_frames, img, temp_clips, effects,
          existing_clips, outcomes, stitch_rc, clip_files, list_file,
          placeholder_file, slideshow_file, segments, final_concat_list, final_video,
          final_music_video, video_with_narration, calls>>
gen_vars == <<generator, gen_pc, script_chunks, chunk_i, attempted, audio_parts,
              audio_at_start, audio_written>>
stage_vars == <<split, script_gen, image_gen, job>>
vars == <<assembler_vars, gen_vars, stage_vars>>

pap_locals == <<audio_glob, audio_files, overlay_files, idx, successful_parts,
                ret, summary, visited, results, overlays_used>>
slide_locals == <<images, duration, duration_in_frames, img, temp_clips,
                  effects, existing_clips, outcomes, stitch_rc>>
temp_fs == <<clip_files, list_file, placeholder_file, slideshow_file>>
final_fs == <<final_concat_list, final_video, final_music_video,
              video_with_narration>>

\* The locals of the loop body and of create_animated_slideshow are dead once
\* the part is over: each is assigned again before it is read.  The files
\* named after the part are not read again in the run either (every name
\* holds the part number), so the model follows them for the current part.
ResetSlideshow ==
    /\ images' = <<>>
    /\ duration' = NoDuration
    /\ duration_in_frames' = 0
    /\ img' = 1
    /\ temp_clips' = <<>>
    /\ effects' = <<>>
    /\ existing_clips' = <<>>
    /\ outcomes' = <<>>
    /\ stitch_rc' = NoReturnCode
    /\ clip_files' = {}
    /\ list_file' = FALSE
    /\ placeholder_file' = FALSE
    /\ slideshow_file' = "none"

AssemblerInit ==
    /\ pc = "idle"
    /\ run = 0
    /\ entry = "none"
    /\ audio_glob = {}
    /\ audio_files = <<>>
    /\ overlay_files = {}
    /\ idx = 1
    /\ successful_parts = 0
    /\ ret = "none"
    /\ summary = FALSE
    /\ visited = <<>>
    /\ results = <<>>
    /\ overlays_used = {}
    /\ images = <<>>
    /\ duration = NoDuration
    /\ duration_in_frames = 0
    /\ img = 1
    /\ temp_clips = <<>>
    /\ effects = <<>>
    /\ existing_clips = <<>>
    /\ outcomes = <<>>
    /\ stitch_rc = NoReturnCode
    /\ clip_files = {}
    /\ list_file = FALSE
    /\ placeholder_file = FALSE
    /\ slideshow_file = "none"
    /\ segments = [p \in PartNames |-> NoFile]
    /\ final_concat_list = <<>>
    /\ final_video = NoFile
    /\ final_music_video = NoFile
    /\ video_with_narration = "unset"
    /\ calls = {}

\* no audio generator is running
GeneratorInit ==
    /\ generator = "none"
    /\ gen_pc = "idle"
    /\ script_chunks = 0
    /\ chunk_i = 1
    /\ attempted = {}
    /\ audio_parts = {}
    /\ audio_at_start = {}
    /\ audio_written = {}

\* none of the other stages is running
NotRunning == [pc |-> "idle"]
StagesInit ==
    /\ split = NotRunning
    /\ script_gen = NotRunning
    /\ image_gen = NotRunning
    /\ job = NotRunning

Init == AssemblerInit /\ GeneratorInit /\ StagesInit

part_num_by_position == <<idx>>

\* the part the loop of line 149 is at (line 150)
part_num_str == audio_files[idx]

\* a new process: fresh locals; what the earlier run left on disk is still there
NewProcess ==
    /\ run < MaxRuns
    /\ run' = run + 1
    /\ audio_glob' = {}
    /\ audio_files' = <<>>
    /\ overlay_files' = {}
    /\ idx' = 1
    /\ successful_parts' = 0
    /\ ret' = "none"
    /\ summary' = FALSE
    /\ visited' = <<>>
    /\ results' = <<>>
    /\ overlays_used' = {}
    /\ ResetSlideshow
    /\ calls' = {}
    /\ segments' = [p \in PartNames |-> Aged(segments[p])]
    /\ final_concat_list' = <<>>
    /\ final_video' = Aged(final_video)
    /\ final_music_video' = Aged(final_music_video)
    /\ video_with_narration' = "unset"

\* python video_assembler.py: the __main__ block starts (line 272)
StartMain ==
    /\ pc = "idle"
    /\ NewProcess
    /\ entry' = "main"
    /\ pc' = "process_all_parts"
    /\ UNCHANGED <<gen_vars, stage_vars>>

\* lines 132-141: no audio file is found, process_all_parts returns False
DiscoverNoAudio ==
    /\ pc = "process_all_parts"
    /\ audio_glob' = {}
    /\ audio_files' = sorted_audio_files(<<>>)
    /\ \E ov \in OverlayListings : overlay_files' = ov
    /\ ret' = "false"
    /\ pc' = "main"
    /\ calls' = calls \cup {"process_all_parts"}
    /\ UNCHANGED <<run, entry, idx, successful_parts, summary, visited, results,
                   overlays_used, slide_locals, temp_fs, segments, final_fs>>
    /\ UNCHANGED <<gen_vars, stage_vars>>

\* lines 132-147: discovery of the audio files and the overlays
DiscoverAudio ==
    /\ pc = "process_all_parts"
    /\ \E found \in SUBSET PartNames :
         /\ found # {}
         /\ Cardinality(found) <= MaxParts
         /\ \E listing \in Orderings(found) :
              /\ audio_glob' = found
              /\ audio_files' = sorted_audio_files(listing)
    /\ \E ov \in OverlayListings : overlay_files' = ov
    /\ successful_parts' = 0
    /\ idx' = 1
    /\ pc' = "part"
    /\ calls' = calls \cup {"process_all_parts"}
    /\ UNCHANGED <<run, entry, ret, summary, visited, results, overlays_used,
                   slide_locals, temp_fs, segments, final_fs>>
    /\ UNCHANGED <<gen_vars, stage_vars>>

\* events of the run are recorded with the calls: "command_failed" (a command
\* exited non-zero, ffprobe gave no duration, or an image file was missing)
\* and "too_short" (line 64)
Logged(events) == calls' = calls \cup events

\* the loop body of line 149 is entered for the part at idx
EnterPart ==
    /\ pc = "part"
    /\ idx <= Len(audio_files)
    /\ visited' = Append(visited, part_num_str)

\* `continue` (lines 162, 169, 193) or the end of the loop body (line 196):
\* the part is over with outcome r
NextPart(r) ==
    /\ results' = Append(results, r)
    /\ idx' = idx + 1
    /\ pc' = "part"
    /\ ResetSlideshow

\* line 153: the files image_part_<part>_img_<k>.png, <<part, k>>, that the
\* pattern built from part_num_str matches, in natural order
GlobImages ==
    \E n \in 0..MaxImages : images' = [k \in 1..n |-> <<part_num_str, k>>]

\* lines 159-160: the answers of get_audio_duration that skip the part
\* (None after an ffprobe error, or a duration of 0.0)
NotDuration(d) == d = NoDuration \/ d = 0

\* lines 150-162: ffprobe fails or answers 0.0, the part is skipped
ProbeFail_return ==
    /\ EnterPart
    /\ \E d \in ProbeAnswers : NotDuration(d)
    /\ results' = Append(results, "probe_failed")
    /\ ResetSlideshow
    /\ ret' = "false"
    /\ pc' = "main"
    /\ UNCHANGED <<run, entry, audio_glob, audio_files, overlay_files, idx,
                   successful_parts, summary, overlays_used, segments,
                   final_fs>>
    /\ Logged({"command_failed"})
    /\ UNCHANGED <<gen_vars, stage_vars>>

ProbeFail ==
    /\ EnterPart
    /\ \E d \in ProbeAnswers : NotDuration(d)
    /\ NextPart("probe_failed")
    /\ UNCHANGED <<run, entry, audio_glob, audio_files, overlay_files,
                   successful_parts, ret, summary, overlays_used, segments,
                   final_fs>>
    /\ Logged({"command_failed"})
    /\ UNCHANGED <<gen_vars, stage_vars>>

\* lines 150-167: the duration is known, create_animated_slideshow is called
ProbeOk ==
    /\ EnterPart
    /\ GlobImages
    /\ \E d \in ProbeAnswers :
         /\ ~NotDuration(d)
         /\ duration' = d
    /\ pc' = "slideshow"
    /\ UNCHANGED <<run, entry, audio_glob, audio_files, overlay_files, idx,
                   successful_parts, ret, summary, results, overlays_used,
                   duration_in_frames, img, temp_clips, effects, existing_clips,
                   temp_fs, segments, final_fs, calls>>
    /\ UNCHANGED <<outcomes, stitch_rc>>
    /\ UNCHANGED <<gen_vars, stage_vars>>

images_or_two_placeholders ==
    IF images = <<>>
    THEN <<<<part_num_str, PLACEHOLDER>>, <<part_num_str, PLACEHOLDER>>>>
    ELSE images

\* lines 53-57: the image list the slideshow works on
images_or_placeholder ==
    IF images = <<>> THEN <<<<part_num_str, PLACEHOLDER>>>> ELSE images

\* lines 53-57: the placeholder image is saved when there is no image
SavePlaceholder ==
    /\ images' = images_or_placeholder
    /\ placeholder_file' = (images = <<>>)

SlideshowTooShort_proceeds ==
    /\ pc = "slideshow"
    /\ SavePlaceholder
    /\ duration_in_frames' = frames_of(duration, Len(images_or_placeholder))
    /\ duration_in_frames' <= 0
    /\ img' = 1
    /\ temp_clips' = <<>>
    /\ pc' = "animate"
    /\ UNCHANGED <<run, entry, pap_locals, duration, effects, existing_clips,
                   clip_files, list_file, slideshow_file, segments, final_fs>>
    /\ Logged({"too_short"})
    /\ UNCHANGED <<outcomes, stitch_rc>>
    /\ UNCHANGED <<gen_vars, stage_vars>>

\* lines 53-66: the frame count is not positive, the call returns False
SlideshowTooShort ==
    /\ pc = "slideshow"
    /\ SavePlaceholder
    /\ duration_in_frames' = frames_of(duration, Len(images_or_placeholder))
    /\ duration_in_frames' <= 0
    /\ pc' = "slideshow_false"
    /\ UNCHANGED <<run, entry, pap_locals, duration, img, temp_clips, effects,
                   existing_clips, clip_files, list_file, slideshow_file,
                   segments, final_fs>>
    /\ Logged({"too_short"})
    /\ UNCHANGED <<outcomes, stitch_rc>>
    /\ UNCHANGED <<gen_vars, stage_vars>>

\* lines 53-78: the animation loop starts
SlideshowBegin ==
    /\ pc = "slideshow"
    /\ SavePlaceholder
    /\ duration_in_frames' = frames_of(duration, Len(images_or_placeholder))
    /\ duration_in_frames' > 0
    /\ img' = 1
    /\ temp_clips' = <<>>
    /\ pc' = "animate"
    /\ UNCHANGED <<run, entry, pap_locals, duration, effects, existing_clips,
                   clip_files, list_file, slideshow_file, segments, final_fs>>
    /\ UNCHANGED <<calls, outcomes, stitch_rc>>
    /\ UNCHANGED <<gen_vars, stage_vars>>

InAnimateLoop ==
    /\ pc = "animate"
    /\ img <= Len(images)

\* lines 82-84: the image file is gone, the image is skipped
ImageMissing ==
    /\ InAnimateLoop
    /\ images[img][2] # PLACEHOLDER
    /\ img' = img + 1
    /\ UNCHANGED <<pc, run, entry, pap_locals, images, duration,
                   duration_in_frames, temp_clips, effects, existing_clips,
                   temp_fs, segments, final_fs>>
    /\ outcomes' = Append(outcomes, "missing")
    /\ Logged({"command_failed"})
    /\ UNCHANGED stitch_rc
    /\ UNCHANGED <<gen_vars, stage_vars>>

effect_index_of_kept(pos) == Len(temp_clips) % NumPresets

\* line 88: preset_keys[i % len(preset_keys)], i the 0-based position
effect_index(pos) == pos % NumPresets

\* lines 86-101: the animation command exits with 0, the clip is kept
AnimateOk ==
    /\ InAnimateLoop
    /\ temp_clips' = Append(temp_clips, img - 1)
    /\ effects' = Append(effects, <<img - 1, effect_index(img - 1)>>)
    /\ clip_files' = clip_files \cup {img - 1}
    /\ img' = img + 1
    /\ UNCHANGED <<pc, run, entry, pap_locals, images, duration,
                   duration_in_frames, existing_clips, list_file,
                   placeholder_file, slideshow_file, segments, final_fs, calls>>
    /\ outcomes' = Append(outcomes, "ok")
    /\ UNCHANGED stitch_rc
    /\ UNCHANGED <<gen_vars, stage_vars>>

AnimateFail_abort ==
    /\ InAnimateLoop
    /\ temp_clips' = SelectSeq(Append(temp_clips, img - 1), LAMBDA c : c # img - 1)
    /\ effects' = Append(effects, <<img - 1, effect_index(img - 1)>>)
    /\ \E left \in BOOLEAN :
         clip_files' = IF left THEN clip_files \cup {img - 1} ELSE clip_files
    /\ img' = img + 1
    /\ pc' = "slideshow_false"
    /\ UNCHANGED <<run, entry, pap_locals, images, duration,
                   duration_in_frames, existing_clips, list_file,
                   placeholder_file, slideshow_file, segments, final_fs>>
    /\ outcomes' = Append(outcomes, "failed")
    /\ Logged({"command_failed"})
    /\ UNCHANGED stitch_rc
    /\ UNCHANGED <<gen_vars, stage_vars>>

\* lines 86-103: the animation command fails, the clip leaves temp_clips;
\* the command may have left an incomplete clip file behind
AnimateFail ==
    /\ InAnimateLoop
    /\ temp_clips' = SelectSeq(Append(temp_clips, img - 1), LAMBDA c : c # img - 1)
    /\ effects' = Append(effects, <<img - 1, effect_index(img - 1)>>)
    /\ \E left \in BOOLEAN :
         clip_files' = IF left THEN clip_files \cup {img - 1} ELSE clip_files
    /\ img' = img + 1
    /\ UNCHANGED <<pc, run, entry, pap_locals, images, duration,
                   duration_in_frames, existing_clips, list_file,
                   placeholder_file, slideshow_file, segments, final_fs>>
    /\ outcomes' = Append(outcomes, "failed")
    /\ Logged({"command_failed"})
    /\ UNCHANGED stitch_rc
    /\ UNCHANGED <<gen_vars, stage_vars>>

\* the 0-based positions of a list of n images
Positions(n) == [k \in 1..n |-> k - 1]

clips_listed_from_disk == SelectSeq(Positions(Len(images)), LAMBDA c : c \in clip_files)

\* line 105: the clips of temp_clips that exist on disk
clips_on_disk == SelectSeq(temp_clips, LAMBDA c : c \in clip_files)

AfterAnimateLoop ==
    /\ pc = "animate"
    /\ img > Len(images)
    /\ existing_clips' = clips_on_disk

\* lines 105-108: no clip was produced, the call returns False
StitchNoClips ==
    /\ AfterAnimateLoop
    /\ clips_on_disk = <<>>
    /\ pc' = "slideshow_false"
    /\ UNCHANGED <<run, entry, pap_locals, images, duration, duration_in_frames,
                   img, temp_clips, effects, temp_fs, segments, final_fs, calls>>
    /\ UNCHANGED <<outcomes, stitch_rc>>
    /\ UNCHANGED <<gen_vars, stage_vars>>

\* lines 110-123: the concat list is written, the stitching command fails;
\* the command may have left an incomplete slideshow file behind
StitchFail ==
    /\ AfterAnimateLoop
    /\ clips_on_disk # <<>>
    /\ list_file' = TRUE
    /\ \E left \in BOOLEAN :
         slideshow_file' = IF left THEN "incomplete" ELSE slideshow_file
    /\ pc' = "slideshow_false"
    /\ UNCHANGED <<run, entry, pap_locals, images, duration, duration_in_frames,
                   img, temp_clips, effects, clip_files, placeholder_file,
                   segments, final_fs>>
    /\ stitch_rc' = 1
    /\ Logged({"command_failed"})
    /\ UNCHANGED outcomes
    /\ UNCHANGED <<gen_vars, stage_vars>>

\* lines 110-128: the clips are stitched, the clips and the list are removed
StitchOk ==
    /\ AfterAnimateLoop
    /\ clips_on_disk # <<>>
    /\ slideshow_file' = "complete"
    /\ clip_files' = clip_files \ Range(clips_on_disk)
    /\ list_file' = FALSE
    /\ pc' = "slideshow_true"
    /\ UNCHANGED <<run, entry, pap_locals, images, duration, duration_in_frames,
                   img, temp_clips, effects, placeholder_file, segments,
                   final_fs, calls>>
    /\ stitch_rc' = 0
    /\ UNCHANGED outcomes
    /\ UNCHANGED <<gen_vars, stage_vars>>

\* lines 167-169: create_animated_slideshow returned False, the part is skipped
SlideshowFailed ==
    /\ pc = "slideshow_false"
    /\ NextPart("slideshow_failed")
    /\ UNCHANGED <<run, entry, audio_glob, audio_files, overlay_files,
                   successful_parts, ret, summary, visited, overlays_used,
                   segments, final_fs, calls>>
    /\ UNCHANGED <<gen_vars, stage_vars>>

\* line 172: random.choice(overlay_files) if overlay_files else None
ChooseOverlay ==
    \E o \in overlay_files \cup {NoOverlay} :
        /\ (o = NoOverlay) <=> (overlay_files = {})
        /\ overlays_used' = overlays_used \cup {o}

\* lines 171-193: the compositing command fails; it may leave an incomplete
\* segment file behind or leave the path as it was
CompositeFail_counted ==
    /\ pc = "slideshow_true"
    /\ ChooseOverlay
    /\ \E left \in BOOLEAN :
         segments' = IF left
                     THEN [segments EXCEPT ![part_num_str] = File(FALSE, "segment")]
                     ELSE segments
    /\ successful_parts' = successful_parts + 1
    /\ NextPart("composite_failed")
    /\ UNCHANGED <<run, entry, audio_glob, audio_files, overlay_files,
                   ret, summary, visited, final_fs>>
    /\ Logged({"command_failed"})
    /\ UNCHANGED <<gen_vars, stage_vars>>

CompositeFail ==
    /\ pc = "slideshow_true"
    /\ ChooseOverlay
    /\ \E left \in BOOLEAN :
         segments' = IF left
                     THEN [segments EXCEPT ![part_num_str] = File(FALSE, "segment")]
                     ELSE segments
    /\ NextPart("composite_failed")
    /\ UNCHANGED <<run, entry, audio_glob, audio_files, overlay_files,
                   successful_parts, ret, summary, visited, final_fs>>
    /\ Logged({"command_failed"})
    /\ UNCHANGED <<gen_vars, stage_vars>>

\* lines 171-196: the segment is written and counted
CompositeOk ==
    /\ pc = "slideshow_true"
    /\ ChooseOverlay
    /\ segments' = [segments EXCEPT ![part_num_str] = File(TRUE, "segment")]
    /\ successful_parts' = successful_parts + 1
    /\ NextPart("ok")
    /\ UNCHANGED <<run, entry, audio_glob, audio_files, overlay_files,
                   ret, summary, visited, final_fs, calls>>
    /\ UNCHANGED <<gen_vars, stage_vars>>

\* lines 198-200: the summary is printed, the result is successful_parts > 0
Summary ==
    /\ pc = "part"
    /\ idx > Len(audio_files)
    /\ summary' = TRUE
    /\ ret' = IF successful_parts > 0 THEN "true" ELSE "false"
    /\ pc' = "main"
    /\ UNCHANGED <<run, entry, audio_glob, audio_files, overlay_files, idx,
                   successful_parts, visited, results, overlays_used,
                   slide_locals, temp_fs, segments, final_fs, calls>>
    /\ UNCHANGED <<gen_vars, stage_vars>>

\* lines 275-276: process_all_parts returned True, the assembler is called
MainAssemble ==
    /\ pc = "main"
    /\ ret = "true"
    /\ pc' = "concat"
    /\ UNCHANGED <<run, entry, pap_locals, slide_locals, temp_fs, segments,
                   final_fs, calls>>
    /\ UNCHANGED <<gen_vars, stage_vars>>

\* lines 275, 279-280: process_all_parts returned False, the run is over
MainAbort_assemble ==
    /\ pc = "main"
    /\ ret = "false"
    /\ pc' = "concat"
    /\ UNCHANGED <<run, entry, pap_locals, slide_locals, temp_fs, segments,
                   final_fs, calls>>
    /\ UNCHANGED <<gen_vars, stage_vars>>

MainAbort ==
    /\ pc = "main"
    /\ ret = "false"
    /\ pc' = "idle"
    /\ UNCHANGED <<run, entry, pap_locals, slide_locals, temp_fs, segments,
                   final_fs, calls>>
    /\ UNCHANGED <<gen_vars, stage_vars>>

\* concatenate_final_video() called on its own (it takes no argument and
\* works on whatever the temp directory holds)
StartConcat ==
    /\ pc = "idle"
    /\ NewProcess
    /\ entry' = "concat"
    /\ pc' = "concat"
    /\ UNCHANGED <<gen_vars, stage_vars>>

\* line 206: the segment files glob finds in the temp directory
segments_on_disk == {p \in PartNames : segments[p] # NoFile}

\* lines 204-210: no segment on disk, the call returns None
ConcatenateNone_write ==
    /\ pc = "concat"
    /\ segments_on_disk = {}
    /\ calls' = calls \cup {"concatenate_final_video", "ffmpeg_concat"}
    /\ final_video' = File(TRUE, "assembled")
    /\ video_with_narration' = "path"
    /\ pc' = "concat_done"
    /\ UNCHANGED <<run, entry, pap_locals, slide_locals, temp_fs, segments,
                   final_concat_list, final_music_video>>
    /\ UNCHANGED <<gen_vars, stage_vars>>

ConcatenateNone ==
    /\ pc = "concat"
    /\ segments_on_disk = {}
    /\ calls' = calls \cup {"concatenate_final_video"}
    /\ video_with_narration' = "None"
    /\ pc' = "concat_done"
    /\ UNCHANGED <<run, entry, pap_locals, slide_locals, temp_fs, segments,
                   final_concat_list, final_video, final_music_video>>
    /\ UNCHANGED <<gen_vars, stage_vars>>

\* lines 212-224: the concat list is written in natsorted order and the
\* concatenation command is run
WriteFinalConcatList ==
    /\ pc = "concat"
    /\ segments_on_disk # {}
    /\ \E listing \in Orderings(segments_on_disk) :
         final_concat_list' = sorted_processed_segments(listing)
    /\ calls' = calls \cup {"concatenate_final_video", "ffmpeg_concat"}

\* lines 212-227: the concatenation command fails, the call returns None;
\* the command may have left an incomplete final video behind
ConcatenateFail ==
    /\ WriteFinalConcatList
    /\ \E left \in BOOLEAN :
         final_video' = IF left THEN File(FALSE, "assembled") ELSE final_video
    /\ video_with_narration' = "None"
    /\ pc' = "concat_done"
    /\ UNCHANGED <<run, entry, pap_locals, slide_locals, temp_fs, segments,
                   final_music_video>>
    /\ UNCHANGED <<gen_vars, stage_vars>>

ConcatenateOk_consume ==
    /\ WriteFinalConcatList
    /\ final_video' = File(TRUE, "assembled")
    /\ video_with_narration' = "path"
    /\ pc' = "concat_done"
    /\ segments' = [p \in PartNames |-> NoFile]
    /\ UNCHANGED <<run, entry, pap_locals, slide_locals, temp_fs,
                   final_music_video>>
    /\ UNCHANGED <<gen_vars, stage_vars>>

\* lines 212-230: the final video is written, the call returns its path
ConcatenateOk ==
    /\ WriteFinalConcatList
    /\ final_video' = File(TRUE, "assembled")
    /\ video_with_narration' = "path"
    /\ pc' = "concat_done"
    /\ UNCHANGED <<run, entry, pap_locals, slide_locals, temp_fs, segments,
                   final_music_video>>
    /\ UNCHANGED <<gen_vars, stage_vars>>

\* lines 277-278: the assembler returned a path, the mixer is called
MainMix ==
    /\ pc = "concat_done"
    /\ entry = "main"
    /\ video_with_narration = "path"
    /\ pc' = "music"
    /\ UNCHANGED <<run, entry, pap_locals, slide_locals, temp_fs, segments,
                   final_fs, calls>>
    /\ UNCHANGED <<gen_vars, stage_vars>>

MainNoMix_mix ==
    /\ pc = "concat_done"
    /\ entry = "main"
    /\ video_with_narration = "None"
    /\ pc' = "music"
    /\ UNCHANGED <<run, entry, pap_locals, slide_locals, temp_fs, segments,
                   final_fs, calls>>
    /\ UNCHANGED <<gen_vars, stage_vars>>

\* line 277: the assembler returned None, the run is over
MainNoMix ==
    /\ pc = "concat_done"
    /\ entry = "main"
    /\ video_with_narration = "None"
    /\ pc' = "idle"
    /\ UNCHANGED <<run, entry, pap_locals, slide_locals, temp_fs, segments,
                   final_fs, calls>>
    /\ UNCHANGED <<gen_vars, stage_vars>>

\* the direct call of concatenate_final_video is over
ConcatReturns ==
    /\ pc = "concat_done"
    /\ entry = "concat"
    /\ pc' = "idle"
    /\ UNCHANGED <<run, entry, pap_locals, slide_locals, temp_fs, segments,
                   final_fs, calls>>
    /\ UNCHANGED <<gen_vars, stage_vars>>

MusicRename_copy ==
    /\ pc = "music"
    /\ calls' = calls \cup {"add_narration_and_music"}
    /\ final_music_video' = final_video
    /\ pc' = "idle"
    /\ UNCHANGED <<run, entry, pap_locals, slide_locals, temp_fs, segments,
                   final_concat_list, final_video, video_with_narration>>
    /\ UNCHANGED <<gen_vars, stage_vars>>

\* lines 236-244: no music file, the assembled video is renamed
MusicRename ==
    /\ pc = "music"
    /\ calls' = calls \cup {"add_narration_and_music"}
    /\ final_music_video' = final_video
    /\ final_video' = NoFile
    /\ pc' = "idle"
    /\ UNCHANGED <<run, entry, pap_locals, slide_locals, temp_fs, segments,
                   final_concat_list, video_with_narration>>
    /\ UNCHANGED <<gen_vars, stage_vars>>

\* lines 236-244: no music file, os.rename raises OSError; the error is
\* printed ("rename_failed") and the function returns
MusicRenameFail ==
    /\ pc = "music"
    /\ calls' = calls \cup {"add_narration_and_music", "rename_failed"}
    /\ pc' = "idle"
    /\ UNCHANGED <<run, entry, pap_locals, slide_locals, temp_fs, segments,
                   final_fs>>
    /\ UNCHANGED <<gen_vars, stage_vars>>

\* lines 246-269: the mixing command writes the final video with music
MusicMixOk ==
    /\ pc = "music"
    /\ calls' = calls \cup {"add_narration_and_music", "ffmpeg_mix"}
    /\ final_music_video' = File(TRUE, "mixed")
    /\ pc' = "idle"
    /\ UNCHANGED <<run, entry, pap_locals, slide_locals, temp_fs, segments,
                   final_concat_list, final_video, video_with_narration>>
    /\ UNCHANGED <<gen_vars, stage_vars>>

MusicMixFail_consumes ==
    /\ pc = "music"
    /\ calls' = calls \cup {"add_narration_and_music", "ffmpeg_mix", "mix_failed"}
    /\ final_music_video' = File(FALSE, "mixed")
    /\ final_video' = NoFile
    /\ pc' = "idle"
    /\ UNCHANGED <<run, entry, pap_locals, slide_locals, temp_fs, segments,
                   final_concat_list, video_with_narration>>
    /\ UNCHANGED <<gen_vars, stage_vars>>

\* lines 246-267: the mixing command fails ("mix_failed"); it may leave an
\* incomplete output file behind
MusicMixFail ==
    /\ pc = "music"
    /\ calls' = calls \cup {"add_narration_and_music", "ffmpeg_mix", "mix_failed"}
    /\ \E left \in BOOLEAN :
         final_music_video' = IF left THEN File(FALSE, "mixed")
                              ELSE final_music_video
    /\ pc' = "idle"
    /\ UNCHANGED <<run, entry, pap_locals, slide_locals, temp_fs, segments,
                   final_concat_list, final_video, video_with_narration>>
    /\ UNCHANGED <<gen_vars, stage_vars>>

Next ==
    \/ StartMain
    \/ DiscoverNoAudio
    \/ DiscoverAudio
    \/ ProbeFail
    \/ ProbeOk
    \/ SlideshowTooShort
    \/ SlideshowBegin
    \/ ImageMissing
    \/ AnimateOk
    \/ AnimateFail
    \/ StitchNoClips
    \/ StitchFail
    \/ StitchOk
    \/ SlideshowFailed
    \/ CompositeFail
    \/ CompositeOk
    \/ Summary
    \/ MainAssemble
    \/ MainAbort
    \/ StartConcat
    \/ ConcatenateNone
    \/ ConcatenateFail
    \/ ConcatenateOk
    \/ MainMix
    \/ MainNoMix
    \/ ConcatReturns
    \/ MusicRename
    \/ MusicRenameFail
    \/ MusicMixOk
    \/ MusicMixFail

Spec == Init /\ [][Next]_vars

\* ------------------------------------------- create_animated_slideshow alone
MaxSlideImages == 5   \* images handed to one call of create_animated_slideshow

\* total_duration arguments, in ticks: 1/48 s, 4/48 s, 97/48 s
SlideDurations == {1, 4, 97}

\* line 46: create_animated_slideshow(images, total_duration, output_path,
\* part_number) is called with any image list and any positive duration
InitSlide ==
    /\ GeneratorInit
    /\ StagesInit
    /\ pc = "slideshow"
    /\ run = 1
    /\ entry = "slideshow"
    /\ \E p \in PartNames :
         /\ audio_glob = {p}
         /\ audio_files = <<p>>
         /\ visited = <<p>>
         /\ \E n \in 0..MaxSlideImages : images = [k \in 1..n |-> <<p, k>>]
    /\ overlay_files = {}
    /\ idx = 1
    /\ successful_parts = 0
    /\ ret = "none"
    /\ summary = FALSE
    /\ results = <<>>
    /\ overlays_used = {}
    /\ duration \in SlideDurations
    /\ duration_in_frames = 0
    /\ img = 1
    /\ temp_clips = <<>>
    /\ effects = <<>>
    /\ existing_clips = <<>>
    /\ outcomes = <<>>
    /\ stitch_rc = NoReturnCode
    /\ clip_files = {}
    /\ list_file = FALSE
    /\ placeholder_file = FALSE
    /\ slideshow_file = "none"
    /\ segments = [p \in PartNames |-> NoFile]
    /\ final_concat_list = <<>>
    /\ final_video = NoFile
    /\ final_music_video = NoFile
    /\ video_with_narration = "unset"
    /\ calls = {}

\* lines 46-128: the steps of one call, up to its return
NextSlide ==
    \/ SlideshowTooShort
    \/ SlideshowBegin
    \/ ImageMissing
    \/ AnimateOk
    \/ AnimateFail
    \/ StitchNoClips
    \/ StitchFail
    \/ StitchOk

SpecSlide == InitSlide /\ [][NextSlide]_vars

\* ------------------------------------------------------ the audio generators
MaxChunks == 3        \* script chunks handed to an audio generator

\* audio_generator.py generate_audio_for_chunks ("elevenlabs"),
\* audio_generator_gemini.py generate_audio_for_chunks ("gemini") and the
\* loop of its __main__ block ("gemini_main")
Generators == {"elevenlabs", "gemini", "gemini_main"}

\* the generator is at its loop head with n chunks; audio files of an earlier
\* invocation may be in the audio directory
InitAudio ==
    /\ AssemblerInit
    /\ StagesInit
    /\ generator \in Generators
    /\ gen_pc = "loop"
    /\ script_chunks \in 1..MaxChunks
    /\ chunk_i = 1
    /\ attempted = {}
    /\ audio_parts \in SUBSET (1..script_chunks)
    /\ audio_at_start = audio_parts
    /\ audio_written = {}

InChunkLoop ==
    /\ gen_pc = "loop"
    /\ chunk_i <= script_chunks

NeverThere == FALSE

\* audio_generator_gemini.py lines 146-148: only the __main__ loop skips a
\* chunk whose audio file exists
AlreadyThere == generator = "gemini_main" /\ chunk_i \in audio_parts

\* the text-to-speech service is called for the chunk at chunk_i
CallTts ==
    /\ InChunkLoop
    /\ ~AlreadyThere
    /\ attempted' = attempted \cup {chunk_i}

\* audio_generator_gemini.py lines 146-148: the audio file exists, `continue`
AudioExists ==
    /\ InChunkLoop
    /\ AlreadyThere
    /\ chunk_i' = chunk_i + 1
    /\ UNCHANGED <<generator, gen_pc, script_chunks, attempted, audio_parts,
                   audio_at_start, audio_written>>
    /\ UNCHANGED <<assembler_vars, stage_vars>>

\* audio_generator.py line 69, audio_generator_gemini.py lines 15-19: the
\* audio file of the chunk at chunk_i is opened for writing (touched), or not
WriteAudio(touched) ==
    /\ audio_parts' = IF touched THEN audio_parts \cup {chunk_i} ELSE audio_parts
    /\ audio_written' = IF touched THEN audio_written \cup {chunk_i}
                        ELSE audio_written

\* audio_generator.py lines 62-71, audio_generator_gemini.py lines 92-110 and
\* 167-178: the audio is generated and saved as audio_part_<i+1>
TtsSaved ==
    /\ CallTts
    /\ WriteAudio(TRUE)
    /\ chunk_i' = chunk_i + 1
    /\ UNCHANGED <<generator, gen_pc, script_chunks, audio_at_start>>
    /\ UNCHANGED <<assembler_vars, stage_vars>>

\* audio_generator_gemini.py lines 100-105 and 171-174: the response has no
\* candidates (safety block), `continue`
GeminiBlocked ==
    /\ CallTts
    /\ generator \in {"gemini", "gemini_main"}
    /\ chunk_i' = chunk_i + 1
    /\ UNCHANGED <<generator, gen_pc, script_chunks, audio_parts,
                   audio_at_start, audio_written>>
    /\ UNCHANGED <<assembler_vars, stage_vars>>

\* audio_generator_gemini.py lines 112-114 and 180-181, and save_wav_file
\* returning False (lines 21-23, 109, 177): the error is printed and the loop
\* goes on with the next chunk; wave.open may have created the file already
GeminiError ==
    /\ CallTts
    /\ generator \in {"gemini", "gemini_main"}
    /\ \E left \in BOOLEAN : WriteAudio(left)
    /\ chunk_i' = chunk_i + 1
    /\ UNCHANGED <<generator, gen_pc, script_chunks, audio_at_start>>
    /\ UNCHANGED <<assembler_vars, stage_vars>>

\* audio_generator.py lines 72-74: the error is printed and the loop is left
\* with `break`; save (line 69) may have started the file already
ElevenLabsError ==
    /\ CallTts
    /\ generator = "elevenlabs"
    /\ \E left \in BOOLEAN : WriteAudio(left)
    /\ gen_pc' = "done"
    /\ UNCHANGED <<generator, script_chunks, chunk_i, audio_at_start>>
    /\ UNCHANGED <<assembler_vars, stage_vars>>

\* the loop is exhausted
ChunksDone ==
    /\ gen_pc = "loop"
    /\ chunk_i > script_chunks
    /\ gen_pc' = "done"
    /\ UNCHANGED <<generator, script_chunks, chunk_i, attempted, audio_parts,
                   audio_at_start, audio_written>>
    /\ UNCHANGED <<assembler_vars, stage_vars>>

\* the generator is started again on the same chunks and audio directory
RunAgain ==
    /\ gen_pc = "done"
    /\ gen_pc' = "loop"
    /\ chunk_i' = 1
    /\ attempted' = {}
    /\ audio_at_start' = audio_parts
    /\ audio_written' = {}
    /\ UNCHANGED <<generator, script_chunks, audio_parts>>
    /\ UNCHANGED <<assembler_vars, stage_vars>>

NextAudio ==
    \/ AudioExists
    \/ TtsSaved
    \/ GeminiBlocked
    \/ GeminiError
    \/ ElevenLabsError
    \/ ChunksDone
    \/ RunAgain

SpecAudio == InitAudio /\ [][NextAudio]_vars

\* ================================================================ claims
\* process_all_parts has returned to the __main__ block
PapReturned == entry = "main" /\ ret # "none"

IsAscending(s) == \A a, b \in 1..Len(s) : a < b => NumVal(s[a]) <= NumVal(s[b])

\* the parts for which probe, slideshow and compositing all succeeded
SucceededParts == {visited[k] : k \in {j \in 1..Len(results) : results[j] = "ok"}}
OkCount == Cardinality({k \in 1..Len(results) : results[k] = "ok"})

\* C1: a part-local failure (probe, slideshow or compositing) never ends
\* process_all_parts: when it has returned for a non-empty audio list, every
\* discovered audio file was visited, each visited part has an outcome, and
\* the summary was printed.
C1_FailureNeverEndsRun ==
    (PapReturned /\ audio_files # <<>>) =>
        /\ summary
        /\ \A k \in 1..Len(audio_files) : audio_files[k] \in Range(visited)
        /\ Len(results) = Len(audio_files)

\* a run whose first part failed and whose second part was still processed
C1_Witness ==
    /\ PapReturned
    /\ summary
    /\ Len(results) = 2
    /\ results[1] \in {"probe_failed", "slideshow_failed", "composite_failed"}
    /\ results[2] = "ok"

\* C2 (as claimed): in a run of the __main__ block the final concat list
\* holds only segments of parts that were processed successfully in this run.
C2_OnlySuccessfulSegments ==
    (entry = "main" /\ final_concat_list # <<>>) =>
        \A k \in 1..Len(final_concat_list) : final_concat_list[k] \in SucceededParts

\* C3: successful_parts is exactly the number of parts whose three steps all
\* succeeded, it stays within 0..total, the total is the number of discovered
\* audio files, and the result is True exactly when successful_parts > 0.
C3_Tally ==
    /\ successful_parts = OkCount
    /\ 0 <= successful_parts
    /\ successful_parts <= Len(audio_files)
    /\ Len(audio_files) = Cardinality(audio_glob)
    /\ summary => ((ret = "true") <=> (successful_parts > 0))
    /\ summary => ret \in {"true", "false"}

\* the tally 1/2: two parts discovered, one succeeded, the result is True
C3_Witness ==
    /\ summary
    /\ Len(audio_files) = 2
    /\ successful_parts = 1
    /\ "composite_failed" \in Range(results)
    /\ ret = "true"

\* C4: the final concat list names every segment on disk once, in ascending
\* numeric part order, whatever order the directory listing had.
C4_ConcatListAscending ==
    final_concat_list # <<>> =>
        /\ IsAscending(final_concat_list)
        /\ Range(final_concat_list) = segments_on_disk
        /\ Len(final_concat_list) = Cardinality(segments_on_disk)

\* segment 2 is listed before segment 10
C4_Witness == final_concat_list = <<<<2>>, <<1, 0>>>>

\* C5: the loop visits the discovered audio files in ascending numeric
\* order of the part number, each exactly once.
C5_VisitOrder ==
    /\ IsAscending(audio_files)
    /\ Range(audio_files) = audio_glob
    /\ Len(audio_files) = Cardinality(audio_glob)
    /\ Len(visited) <= Len(audio_files)
    /\ visited = SubSeq(audio_files, 1, Len(visited))
    /\ summary => visited = audio_files

\* part 2 was visited before part 10 and the loop is over
C5_Witness == summary /\ visited = <<<<2>>, <<1, 0>>>>

\* C6: with no processed segment on disk concatenate_final_video returns
\* None, does not run the concatenation command and leaves the final video
\* and the concat list as they were.
C6_NoSegmentsNoOutput ==
    (pc = "concat_done" /\ segments_on_disk = {}) =>
        /\ video_with_narration = "None"
        /\ "ffmpeg_concat" \notin calls
        /\ final_video.origin # "current"
        /\ final_concat_list = <<>>

\* concatenate_final_video returned None on an empty temp directory
C6_Witness ==
    /\ pc = "concat_done"
    /\ segments_on_disk = {}
    /\ "concatenate_final_video" \in calls
    /\ video_with_narration = "None"

\* C7: when process_all_parts returned False (no audio, or no part
\* succeeded) the run calls neither the assembler nor the mixer and writes
\* no final video.
C7_FatalAborts ==
    (entry = "main" /\ ret = "false") =>
        /\ pc \in {"main", "idle"}
        /\ "concatenate_final_video" \notin calls
        /\ "add_narration_and_music" \notin calls
        /\ final_video.origin # "current"
        /\ final_music_video.origin # "current"

\* a run in which no part succeeded has ended while segment files (left by
\* an earlier run or by a failed command) are on disk
C7_Witness ==
    /\ pc = "idle"
    /\ entry = "main"
    /\ ret = "false"
    /\ summary
    /\ segments_on_disk # {}

\* a run that found no audio file has ended
C7_WitnessNoAudio ==
    /\ pc = "idle"
    /\ entry = "main"
    /\ ret = "false"
    /\ audio_files = <<>>

\* C8 (as claimed): when create_animated_slideshow has returned, none of the
\* part's clips, concat list or placeholder image is on disk.
C8_NoTempFilesLeft ==
    pc \in {"slideshow_true", "slideshow_false"} =>
        /\ clip_files = {}
        /\ ~list_file
        /\ ~placeholder_file

Abs(x) == IF x < 0 THEN -x ELSE x

\* C9 (as claimed): when the slideshow succeeded, the sum of the clip
\* durations, Len(existing_clips) * duration / Len(images), is within 1/24 s
\* of duration (both sides multiplied by Len(images) * FPS).
C9_SlideshowDuration ==
    pc = "slideshow_true" =>
        Abs(Len(existing_clips) * duration - Len(images) * duration) * FPS
            <= Len(images) * TicksPerSecond

Min(a, b) == IF a <= b THEN a ELSE b

\* C10 (as claimed): when a part completes, the segment, as long as the
\* shorter of the slideshow and the audio, is shorter than the audio by at
\* most one frame per image.
C10_NarrationNotCut ==
    [][(pc = "slideshow_true" /\ results' = Append(results, "ok")) =>
          (Len(images) * duration
             - Min(Len(existing_clips) * duration, Len(images) * duration)) * FPS
            <= Len(images) * Len(images) * TicksPerSecond]_vars

\* create_animated_slideshow is past its image-list and frame-count steps
SlideshowRunning == pc \in {"animate", "slideshow_true", "slideshow_false"}

C12_TooShortFailsEarly ==
    /\ SlideshowRunning =>
         duration_in_frames = frames_of(duration, Len(images))
    /\ (SlideshowRunning /\ duration_in_frames <= 0) =>
         /\ pc = "slideshow_false"
         /\ effects = <<>>
         /\ outcomes = <<>>
         /\ stitch_rc = NoReturnCode
         /\ clip_files = {}
         /\ ~list_file
         /\ slideshow_file = "none"

\* three images for 4/48 s: the frame count is 0 and the call has returned False
C12_Witness ==
    /\ pc = "slideshow_false"
    /\ Len(images) = 3
    /\ duration = 4
    /\ duration_in_frames = 0

\* the 0-based positions of the images an animation command was run for
AnimatedPositions ==
    SelectSeq(Positions(Len(outcomes)), LAMBDA j : outcomes[j + 1] # "missing")

\* C13: the k-th animation command of a call is for image position i and
\* uses effect i mod 4, whatever happened to the images before it.
C13_EffectByPosition ==
    /\ NumPresets = 4
    /\ Len(effects) = Len(AnimatedPositions)
    /\ \A k \in 1..Len(effects) :
         /\ effects[k][1] = AnimatedPositions[k]
         /\ effects[k][2] = effects[k][1] % 4

\* the fifth image gets the first effect again although the first image was
\* missing and the second failed
C13_Witness ==
    /\ Len(outcomes) = 5
    /\ outcomes[1] = "missing"
    /\ outcomes[2] = "failed"
    /\ effects[Len(effects)] = <<4, 0>>

\* no image of the call produced a clip
NoClip == \A k \in 1..Len(outcomes) : outcomes[k] # "ok"

SlideshowReturned == pc \in {"slideshow_true", "slideshow_false"}

\* C14 (amended): every image is tried whatever happened to the ones before
\* it; the call returns False exactly when no image produced a clip or the
\* stitching command failed, and then no complete slideshow exists (a failed
\* stitching command may leave an incomplete file); it returns True with a
\* complete slideshow otherwise.
C14_FailsIffNoClipOrStitchFails ==
    SlideshowReturned =>
        /\ duration_in_frames > 0 => Len(outcomes) = Len(images)
        /\ (pc = "slideshow_false") <=> (NoClip \/ stitch_rc = 1)
        /\ pc = "slideshow_false" => slideshow_file # "complete"
        /\ pc = "slideshow_true" => slideshow_file = "complete"

\* C14 (as claimed): the call returns False and no slideshow file is written
\* exactly when no image produced a clip or the stitching command failed.
C14_NoSlideshowWritten ==
    SlideshowReturned =>
        /\ duration_in_frames > 0 => Len(outcomes) = Len(images)
        /\ (pc = "slideshow_false" /\ slideshow_file = "none")
             <=> (NoClip \/ stitch_rc = 1)

\* one image failed, a later one was still animated, then the stitching failed
C14_Witness ==
    /\ pc = "slideshow_false"
    /\ Len(outcomes) >= 2
    /\ outcomes[1] = "failed"
    /\ "ok" \in Range(outcomes)
    /\ stitch_rc = 1

\* C15: the concat list of the part names exactly the clips of the images
\* whose animation succeeded, each once, in image order.
C15_ConcatListOfAnimated ==
    stitch_rc # NoReturnCode =>
        /\ list_file = (stitch_rc = 1)
        /\ existing_clips =
             SelectSeq(Positions(Len(images)), LAMBDA j : outcomes[j + 1] = "ok")

\* images 1 and 3 animated, image 2 failed and left a file behind
C15_Witness ==
    /\ stitch_rc = 0
    /\ Len(outcomes) = 3
    /\ outcomes = <<"ok", "failed", "ok">>
    /\ existing_clips = <<0, 2>>
    /\ 1 \in clip_files

\* C16 (as claimed): all parts composited in one run use the same overlay.
C16_OneOverlayPerRun == Cardinality(overlays_used) <= 1

\* C17: a step of concatenate_final_video leaves every processed segment as
\* it is.
C17_SegmentsOnlyRead == [][pc = "concat" => segments' = segments]_vars

\* the concatenation command failed on a directory that holds segments
C17_Witness ==
    /\ pc = "concat_done"
    /\ "ffmpeg_concat" \in calls
    /\ video_with_narration = "None"
    /\ final_video = File(FALSE, "assembled")
    /\ Cardinality(segments_on_disk) = 2

\* add_narration_and_music has returned through its no-music branch
NoMusicReturned ==
    /\ pc = "idle"
    /\ "add_narration_and_music" \in calls
    /\ "ffmpeg_mix" \notin calls

\* C18 (amended): without music no mixing command is run; when os.rename
\* succeeds the assembled video is at the final path, unchanged, and gone
\* from its old path; when os.rename raises, the assembled video stays where
\* it was and the final path is as before the run.
C18_RenamedUnlessOsError ==
    NoMusicReturned =>
        IF "rename_failed" \notin calls
        THEN /\ final_music_video = File(TRUE, "assembled")
             /\ final_video = NoFile
        ELSE /\ final_video = File(TRUE, "assembled")
             /\ final_music_video.origin # "current"

\* C18 (as claimed): after the no-music branch the deliverable is at the
\* final path and the assembled file is gone from its old path.
C18_DeliverableExists ==
    NoMusicReturned =>
        /\ final_music_video = File(TRUE, "assembled")
        /\ final_video = NoFile

\* the assembled video was renamed to the final path
C18_Witness ==
    /\ NoMusicReturned
    /\ "rename_failed" \notin calls
    /\ final_music_video = File(TRUE, "assembled")
    /\ final_video = NoFile

\* C19: a part is known by the number in its audio file name: the images it
\* is given and the segment it writes carry that number, the position in the
\* list plays no role, and a gap in the numbers does not end the run.
C19_PartsKeyedByNumber ==
    /\ visited = SubSeq(audio_files, 1, Len(visited))
    /\ pc \in {"slideshow", "animate", "slideshow_true", "slideshow_false"} =>
         \A k \in 1..Len(images) : images[k][1] = audio_files[idx]
    /\ \A k \in 1..Len(results) :
         results[k] = "ok" => segments[audio_files[k]] = File(TRUE, "segment")
    /\ \A p \in PartNames :
         segments[p].origin = "current" => p \in Range(audio_files)
    /\ summary => Len(results) = Len(audio_files)

\* parts 2 and 10 only: both were processed under their own number
C19_Witness ==
    /\ summary
    /\ audio_files = <<<<2>>, <<1, 0>>>>
    /\ results = <<"ok", "ok">>
    /\ segments[<<2>>] = File(TRUE, "segment")
    /\ segments[<<1, 0>>] = File(TRUE, "segment")
    /\ segments[<<0, 2>>] = NoFile

\* C20 (as claimed): when a generator is done, the text-to-speech service
\* was called for every chunk (or, in the loop that skips existing audio,
\* the chunk's audio file was there): a failure costs only its own chunk.
C20_LaterChunksAttempted ==
    gen_pc = "done" =>
        \A c \in 1..script_chunks :
            \/ c \in attempted
            \/ generator = "gemini_main" /\ c \in audio_parts

\* the loop body of line 149 has ended for a part with outcome r
PartEnds(r) == results' = Append(results, r)

\* C25: one blocking call after the other: a part is composited only after
\* its probe gave a duration and its slideshow was made; a part is entered
\* only when every part before it has an outcome; the assembler is called
\* only after the loop is over and the summary printed; the mixer is called
\* only after the assembler returned a path.
C25_StagesInSequence ==
    [][/\ (PartEnds("ok") \/ PartEnds("composite_failed")) =>
            /\ pc = "slideshow_true"
            /\ ~NotDuration(duration)
            /\ slideshow_file = "complete"
            /\ Len(visited) = Len(results) + 1
       /\ (pc # "idle" /\ segments' # segments) => pc = "slideshow_true"
       /\ (pc # "idle" /\ visited' # visited) =>
            /\ pc = "part"
            /\ Len(results) = Len(visited)
            /\ visited' = Append(visited, audio_files[Len(visited) + 1])
       /\ (entry = "main" /\ "concatenate_final_video" \in calls' \ calls) =>
            /\ summary
            /\ Len(results) = Len(audio_files)
            /\ ret = "true"
       /\ "add_narration_and_music" \in calls' \ calls =>
            /\ "concatenate_final_video" \in calls
            /\ video_with_narration = "path"]_vars

\* both parts were composited, the assembler and then the mixer have run
C25_Witness ==
    /\ pc = "idle"
    /\ results = <<"ok", "ok">>
    /\ "ffmpeg_mix" \in calls
    /\ final_music_video = File(TRUE, "mixed")

\* add_narration_and_music has returned after a failure
MixerFailed ==
    /\ pc = "idle"
    /\ "add_narration_and_music" \in calls
    /\ ("mix_failed" \in calls \/ "rename_failed" \in calls)

\* C30: when the mixer failed (mixing command or rename), the assembled
\* narration-only video is still at its path, complete.
C30_AssembledVideoKept ==
    MixerFailed => final_video = File(TRUE, "assembled")

\* the mixing command failed and left an incomplete output; the assembled
\* video is still there
C30_Witness ==
    /\ MixerFailed
    /\ "mix_failed" \in calls
    /\ final_music_video = File(FALSE, "mixed")
    /\ final_video = File(TRUE, "assembled")

AllChunks == 1..script_chunks

\* C23: in the chunk-driven audio stage a chunk whose audio file exists when
\* the stage starts gets no text-to-speech call and its file is not written;
\* when the stage is done it has called the service exactly for the chunks
\* without audio; started on a complete audio set it changes nothing.
C23_SkipIfExists ==
    generator = "gemini_main" =>
        /\ attempted \cap audio_at_start = {}
        /\ audio_written \cap audio_at_start = {}
        /\ audio_at_start \subseteq audio_parts
        /\ gen_pc = "done" => attempted = AllChunks \ audio_at_start
        /\ (gen_pc = "done" /\ audio_at_start = AllChunks) =>
             /\ audio_written = {}
             /\ audio_parts = audio_at_start

\* a re-run found audio 1 and 3, generated only chunk 2
C23_Witness ==
    /\ generator = "gemini_main"
    /\ gen_pc = "done"
    /\ script_chunks = 3
    /\ audio_at_start = {1, 3}
    /\ attempted = {2}
    /\ audio_written = {2}
    /\ audio_parts = {1, 2, 3}

\* ------------------------------------------------------------- split_script
MaxText == 6          \* characters of the script text
MaxChars == 3         \* the max_chars argument
MaxIterations == 8    \* loop iterations followed in one call

\* characters of a text: a letter and the newline
Letter == "a"
Newline == "n"
Texts == UNION {[1..len -> {Letter, Newline}] : len \in 0..MaxText}

\* text[start:end], 0-based and end exclusive
Slice(text, start, end) == SubSeq(text, start + 1, end)

\* text.rfind('\n\n', start, end): the highest 0-based index in start..end-2
\* at which two newlines begin, or -1
rfind(text, start, end) ==
    LET found == {k \in start..(end - 2) :
                     text[k + 1] = Newline /\ text[k + 2] = Newline}
    IN IF found = {} THEN -1
       ELSE CHOOSE k \in found : \A other \in found : other <= k

\* str.strip() on a text whose only whitespace is the newline
RECURSIVE strip(_)
strip(text) ==
    IF text = <<>> THEN <<>>
    ELSE IF Head(text) = Newline THEN strip(Tail(text))
    ELSE IF text[Len(text)] = Newline THEN strip(SubSeq(text, 1, Len(text) - 1))
    ELSE text

\* audio_generator_gemini.py lines 47-52, audio_generator.py lines 29-32:
\* split_script(text, max_chars) is called
InitSplit ==
    /\ AssemblerInit
    /\ GeneratorInit
    /\ script_gen = NotRunning
    /\ image_gen = NotRunning
    /\ job = NotRunning
    /\ \E text \in Texts, max_chars \in 1..MaxChars :
         split = [pc |-> "loop", text |-> text, max_chars |-> max_chars,
                  current_pos |-> 0, chunks |-> <<>>, iterations |-> 0]

\* lines 54-58 (gemini) / 34-38: where the chunk that starts at current_pos ends
end_pos_of(text, max_chars, current_pos) ==
    LET end_pos == Min(current_pos + max_chars, Len(text))
        split_point == rfind(text, current_pos, end_pos)
    IN IF end_pos < Len(text) /\ split_point # -1 THEN split_point ELSE end_pos

\* lines 53-63 (gemini) / 33-42: one iteration of the while loop
SplitIteration ==
    /\ split.pc = "loop"
    /\ split.current_pos < Len(split.text)
    /\ split.iterations < MaxIterations
    /\ LET end_pos == end_pos_of(split.text, split.max_chars, split.current_pos)
           chunk == strip(Slice(split.text, split.current_pos, end_pos))
       IN split' = [split EXCEPT
                      !.chunks = IF chunk # <<>> THEN Append(@, chunk) ELSE @,
                      !.current_pos = end_pos,
                      !.iterations = @ + 1]
    /\ UNCHANGED <<assembler_vars, gen_vars, script_gen, image_gen, job>>

\* lines 65-66 (gemini) / 43-44: the loop condition is false, chunks is returned
SplitReturn ==
    /\ split.pc = "loop"
    /\ split.current_pos >= Len(split.text)
    /\ split' = [split EXCEPT !.pc = "done"]
    /\ UNCHANGED <<assembler_vars, gen_vars, script_gen, image_gen, job>>

NextSplit ==
    \/ SplitIteration
    \/ SplitReturn

SpecSplit == InitSplit /\ [][NextSplit]_vars

\* C27 (as claimed): every iteration of the loop of split_script moves
\* current_pos forward, so the call ends after at most len(text) iterations.
C27_PosStrictlyIncreases ==
    [][split'.iterations > split.iterations =>
          split'.current_pos > split.current_pos]_vars

\* ------------------------------------------------------ the script generators
MaxSubtopics == 3     \* subtopics of the outline, over all main topics

\* master_script_generator.py ("master") and historical_script_generator.py
ScriptGenerators == {"master", "historical"}

\* a chunk's content: the intro, the narration of subtopic k (k >= 1), or
\* what an interrupted write left
INTRO == 0
TRUNCATED == -1

\* str(n): the decimal digits of n
RECURSIVE Digits(_)
Digits(n) == IF n < 10 THEN <<n>> ELSE Digits(n \div 10) \o <<n % 10>>

\* s.zfill(width)
RECURSIVE zfill(_, _)
zfill(s, width) == IF Len(s) >= width THEN s ELSE zfill(<<0>> \o s, width)

\* master line 180, historical lines 218-219: the number in the name of the
\* file that holds the chunk at 0-based position i
chunk_file_number(i) == zfill(Digits(i + 1), 2)

\* master line 144, historical lines 173-177: all_chunks / all_final_script_chunks
\* before the first subtopic
first_chunks(g) == IF g = "historical" THEN <<INTRO>> ELSE <<>>

\* the generator starts on an outline of n subtopics, an empty chunks
\* directory before it
InitScript ==
    /\ AssemblerInit
    /\ GeneratorInit
    /\ split = NotRunning
    /\ image_gen = NotRunning
    /\ job = NotRunning
    /\ \E g \in ScriptGenerators, n \in 0..MaxSubtopics :
         script_gen = [pc |-> "generate", generator |-> g, subtopics |-> n,
                       subtopic |-> 1, all_chunks |-> first_chunks(g),
                       failed |-> FALSE, i |-> 0, written |-> {}]

InSubtopicLoop ==
    /\ script_gen.pc = "generate"
    /\ script_gen.subtopic <= script_gen.subtopics

\* master lines 153-159, historical lines 186-201: the narration of the
\* subtopic is generated and appended
ChunkGenerated ==
    /\ InSubtopicLoop
    /\ script_gen' = [script_gen EXCEPT
                        !.all_chunks = Append(@, script_gen.subtopic),
                        !.subtopic = @ + 1]
    /\ UNCHANGED <<assembler_vars, gen_vars, split, image_gen, job>>

\* master lines 160-162 (return None), historical lines 203-205 (return 0):
\* the generation of a subtopic failed or was empty, nothing is saved
ChunkFailed ==
    /\ InSubtopicLoop
    /\ script_gen' = [script_gen EXCEPT !.failed = TRUE, !.pc = "done"]
    /\ UNCHANGED <<assembler_vars, gen_vars, split, image_gen, job>>

\* master lines 166, 222-226: an empty chunk list counts as a failure
NothingToSave ==
    /\ script_gen.pc = "generate"
    /\ script_gen.subtopic > script_gen.subtopics
    /\ script_gen.all_chunks = <<>>
    /\ script_gen' = [script_gen EXCEPT !.failed = TRUE, !.pc = "done"]
    /\ UNCHANGED <<assembler_vars, gen_vars, split, image_gen, job>>

\* master lines 175-176: final_chunks = [formatted_intro] + script_chunks;
\* historical line 211: the list already starts with the intro
StartSaving ==
    /\ script_gen.pc = "generate"
    /\ script_gen.subtopic > script_gen.subtopics
    /\ script_gen.all_chunks # <<>>
    /\ script_gen' = [script_gen EXCEPT
                        !.all_chunks = IF script_gen.generator = "master"
                                       THEN <<INTRO>> \o @ ELSE @,
                        !.pc = "save"]
    /\ UNCHANGED <<assembler_vars, gen_vars, split, image_gen, job>>

InSaveLoop ==
    /\ script_gen.pc = "save"
    /\ script_gen.i < Len(script_gen.all_chunks)

\* the chunks directory after the file of position i got `content`
WithFile(content) ==
    {w \in script_gen.written : w[1] # chunk_file_number(script_gen.i)}
        \cup {<<chunk_file_number(script_gen.i), content>>}

\* master lines 179-182, historical lines 214-223: chunk_<i+1>.txt is written
SaveChunk ==
    /\ InSaveLoop
    /\ script_gen' = [script_gen EXCEPT
                        !.written = WithFile(script_gen.all_chunks[script_gen.i + 1]),
                        !.i = @ + 1]
    /\ UNCHANGED <<assembler_vars, gen_vars, split, image_gen, job>>

\* historical lines 224-226: opening or writing the file raises, the file is
\* skipped (`continue`); the file may have been created already
SaveChunkSkipped ==
    /\ InSaveLoop
    /\ script_gen.generator = "historical"
    /\ \E left \in BOOLEAN :
         script_gen' = [script_gen EXCEPT
                          !.written = IF left THEN WithFile(TRUNCATED) ELSE @,
                          !.i = @ + 1]
    /\ UNCHANGED <<assembler_vars, gen_vars, split, image_gen, job>>

\* master lines 181-182: opening or writing the file raises and nothing
\* catches it, the program ends
SaveChunkCrash ==
    /\ InSaveLoop
    /\ script_gen.generator = "master"
    /\ \E left \in BOOLEAN :
         script_gen' = [script_gen EXCEPT
                          !.written = IF left THEN WithFile(TRUNCATED) ELSE @,
                          !.pc = "done"]
    /\ UNCHANGED <<assembler_vars, gen_vars, split, image_gen, job>>

\* master lines 184-185, historical lines 228-229: every chunk was handled
SavingDone ==
    /\ script_gen.pc = "save"
    /\ script_gen.i >= Len(script_gen.all_chunks)
    /\ script_gen' = [script_gen EXCEPT !.pc = "done"]
    /\ UNCHANGED <<assembler_vars, gen_vars, split, image_gen, job>>

NextScript ==
    \/ ChunkGenerated
    \/ ChunkFailed
    \/ NothingToSave
    \/ StartSaving
    \/ SaveChunk
    \/ SaveChunkSkipped
    \/ SaveChunkCrash
    \/ SavingDone

SpecScript == InitScript /\ [][NextScript]_vars

\* the numbers of the chunk files the run has written
WrittenNumbers == {NumVal(w[1]) : w \in script_gen.written}

\* C22 (as claimed): the chunk files a run has written are numbered
\* 1..K without a gap; when the run is done and every write went through,
\* chunk 1 is the intro and chunk k+1 the narration of subtopic k; a run in
\* which a subtopic failed has written no file.
C22_ChunksContiguous ==
    script_gen.pc # "idle" =>
        /\ WrittenNumbers = 1..Cardinality(script_gen.written)
        /\ \A w \in script_gen.written :
             w[2] # TRUNCATED => w[2] = NumVal(w[1]) - 1
        /\ script_gen.failed => script_gen.written = {}

\* --------------------------------------------------------------- file names
\* A file name is a sequence of pieces: fixed texts ("audio_part_", "_img_",
\* an extension) and single digit characters.
DigitChars == <<"0", "1", "2", "3", "4", "5", "6", "7", "8", "9">>

\* the characters of a digit sequence, <<1, 0>> |-> <<"1", "0">>
Str(digits) == [k \in 1..Len(digits) |-> DigitChars[digits[k] + 1]]

\* f"audio_part_{p}{ext}" and f"image_part_{p}_img_{k}.png"
audio_name(p, ext) == <<"audio_part_">> \o Str(p) \o <<ext>>
image_name(p, k) == <<"image_part_">> \o Str(p) \o <<"_img_">> \o Str(Digits(k)) \o <<".png">>

\* glob.glob(prefix + '*' + suffix) over the names of a directory
glob(prefix, suffix, dir) ==
    {name \in dir :
        /\ Len(name) >= Len(prefix) + Len(suffix)
        /\ SubSeq(name, 1, Len(prefix)) = prefix
        /\ SubSeq(name, Len(name) - Len(suffix) + 1, Len(name)) = suffix}

\* name.replace(piece, '')
replace(name, piece) == SelectSeq(name, LAMBDA t : t # piece)

\* int(s) for a string of digit characters
RECURSIVE IntOf(_)
IntOf(chars) ==
    IF chars = <<>> THEN 0
    ELSE 10 * IntOf(SubSeq(chars, 1, Len(chars) - 1))
         + (CHOOSE d \in 0..9 : DigitChars[d + 1] = chars[Len(chars)])

\* ------------------------------------------------------------ create_job_file
MaxJobParts == 2      \* audio files in the audio directory

\* part numbers that occur in the file names: 1, 2, 3, 01, 10
JobPartNames == {<<1>>, <<2>>, <<3>>, <<0, 1>>, <<1, 0>>}

\* create_job_file.py lines 21-45: the audio files are globbed and sorted;
\* the images directory holds image 1 of any of the parts
InitJob ==
    /\ AssemblerInit
    /\ GeneratorInit
    /\ split = NotRunning
    /\ script_gen = NotRunning
    /\ image_gen = NotRunning
    /\ \E found \in SUBSET JobPartNames, with_image \in SUBSET JobPartNames :
         /\ found # {}
         /\ Cardinality(found) <= MaxJobParts
         /\ \E listing \in Orderings(found) :
              job = [pc |-> "loop",
                     audio_files |-> [k \in 1..Len(listing) |->
                                         audio_name(natsorted(listing)[k], ".mp3")],
                     images_dir |-> {image_name(q, 1) : q \in with_image},
                     i |-> 0,
                     assets |-> <<>>]

InJobLoop ==
    /\ job.pc = "loop"
    /\ job.i < Len(job.audio_files)

\* line 48: part_num = i + 1
part_num == job.i + 1

\* line 50: the images the pattern image_part_{part_num}_img_*.png matches
job_images ==
    glob(<<"image_part_">> \o Str(Digits(part_num)) \o <<"_img_">>, <<".png">>,
         job.images_dir)

\* lines 52-54: no image for part_num, the entry is skipped
JobSkipPart ==
    /\ InJobLoop
    /\ job_images = {}
    /\ job' = [job EXCEPT !.i = @ + 1]
    /\ UNCHANGED <<assembler_vars, gen_vars, split, script_gen, image_gen>>

\* lines 56-62: the asset entry of the audio file at position i
JobAddAsset ==
    /\ InJobLoop
    /\ job_images # {}
    /\ job' = [job EXCEPT
                 !.assets = Append(@, [part |-> part_num,
                                       audio_path |-> job.audio_files[job.i + 1],
                                       image_paths |-> job_images]),
                 !.i = @ + 1]
    /\ UNCHANGED <<assembler_vars, gen_vars, split, script_gen, image_gen>>

\* lines 64-69: job.json is written
JobWritten ==
    /\ job.pc = "loop"
    /\ job.i >= Len(job.audio_files)
    /\ job' = [job EXCEPT !.pc = "done"]
    /\ UNCHANGED <<assembler_vars, gen_vars, split, script_gen, image_gen>>

NextJob ==
    \/ JobSkipPart
    \/ JobAddAsset
    \/ JobWritten

SpecJob == InitJob /\ [][NextJob]_vars

\* the digits of the part number in an audio file name
AudioPartOf(name) == replace(replace(name, "audio_part_"), ".mp3")

\* C24 (as claimed): every asset entry records the part number of its audio
\* file name and holds only images named after that same part, and no part
\* number is recorded twice.
C24_AssetsOfOnePart ==
    job.pc # "idle" =>
        /\ \A k \in 1..Len(job.assets) :
             LET asset == job.assets[k]
                 p == AudioPartOf(asset.audio_path)
             IN /\ asset.part = IntOf(p)
                /\ asset.image_paths =
                     glob(<<"image_part_">> \o p \o <<"_img_">>, <<".png">>,
                          job.images_dir)
        /\ \A k, m \in 1..Len(job.assets) :
             k # m => job.assets[k].part # job.assets[m].part

\* ------------------------------------------------------------ the image stage
MaxStageParts == 2    \* chunk files in the chunks directory
MaxPrompts == 2       \* prompts the model returns for one part

\* part numbers that occur in the chunk file names: 1, 10, 01
ImagePartNames == {<<1>>, <<1, 0>>, <<0, 1>>}

\* an item of the prompt list: a string, a dict with a 'prompt' key, or
\* anything else
PromptItems == {"str", "dict", "other"}

\* what the user can type at the regenerate question
Answers == {"y", "Y", "n"}

\* str.lower()
lower(answer) == IF answer = "Y" THEN "y" ELSE answer

chunk_name(p) == <<"chunk_">> \o Str(p) \o <<".txt">>

\* image_generator.py line 182 (audio_generator_gemini.py line 140):
\* part_num_str, the chunk's file name without 'chunk_' and '.txt'
part_num_str_of(chunk_path) == replace(replace(chunk_path, "chunk_"), ".txt")

\* audio_generator_gemini.py line 141: the audio file of a chunk
audio_path_of(chunk_path) ==
    <<"audio_part_">> \o part_num_str_of(chunk_path) \o <<".wav">>

images_of_any_prefix(part, dir) == glob(<<"image_part_">> \o part, <<".png">>, dir)

\* image_generator.py line 186 and video_assembler.py line 153: the pattern
\* image_part_{part_num_str}_img_*.png
images_of(part, dir) == glob(<<"image_part_">> \o part \o <<"_img_">>, <<".png">>, dir)

filename_by_count(part, i) ==
    <<"image_part_">> \o part \o <<"_img_">>
        \o Str(Digits(image_gen.call.success_count + 1)) \o <<".png">>

\* image_generator.py line 103: the file of the prompt at index i (0-based)
filename(part, i) ==
    <<"image_part_">> \o part \o <<"_img_">> \o Str(Digits(i + 1)) \o <<".png">>

\* lines 93-100: a string or a dict with a prompt is used, anything else is
\* skipped
well_formed(item) == item \in {"str", "dict"}

\* the seconds slept after a generation call: 60 after a quota error (line
\* 127), none after another error (line 130), 5 after an answer unless it was
\* the last prompt (lines 133-135)
cooldown_never(outcome, i, n) == 0

cooldown_after(outcome, i, n) ==
    CASE outcome = "quota" -> 60
      [] outcome = "error" -> 0
      [] OTHER -> IF i < n - 1 THEN 5 ELSE 0

\* the fields of one call of generate_and_save_images, before the loop
NoCall ==
    [prompts |-> <<>>, i |-> 0, success_count |-> 0, attempts |-> <<>>,
     saved |-> {}, last_outcome |-> "none", pause |-> 0, returned |-> "no"]

\* the chunk of the current iteration of main and its part number
chunk_path == image_gen.chunk_files[image_gen.c]
part_number == part_num_str_of(chunk_path)

\* generate_and_save_images, lines 82-88: called for one part with a list of
\* prompts that is not empty; images may be in the images directory
InitSaveImages ==
    /\ AssemblerInit
    /\ GeneratorInit
    /\ split = NotRunning
    /\ script_gen = NotRunning
    /\ job = NotRunning
    /\ \E p \in ImagePartNames, n \in 1..MaxPrompts :
       \E with_image \in SUBSET {p}, image_prompts \in [1..n -> PromptItems] :
         image_gen = [pc |-> "loop",
                      chunk_files |-> <<chunk_name(p)>>,
                      c |-> 1,
                      images_dir |-> {image_name(q, 1) : q \in with_image},
                      call |-> [NoCall EXCEPT !.prompts = image_prompts]]

InPromptLoop ==
    /\ image_gen.pc = "loop"
    /\ image_gen.call.i < Len(image_gen.call.prompts)

\* lines 98-100: an unrecognized item is skipped
SkipMalformed ==
    /\ InPromptLoop
    /\ ~well_formed(image_gen.call.prompts[image_gen.call.i + 1])
    /\ image_gen' = [image_gen EXCEPT !.call.i = @ + 1]
    /\ UNCHANGED <<assembler_vars, gen_vars, split, script_gen, job>>

\* lines 103-114: generate_images is called for the item at index i
CallGenerate ==
    /\ InPromptLoop
    /\ well_formed(image_gen.call.prompts[image_gen.call.i + 1])
    /\ image_gen' = [image_gen EXCEPT
                       !.pc = "call",
                       !.call.attempts = Append(@, image_gen.call.i + 1)]
    /\ UNCHANGED <<assembler_vars, gen_vars, split, script_gen, job>>

\* the call has answered or raised: the sleep that follows and the next index
AfterCall(outcome) ==
    [image_gen.call EXCEPT
        !.last_outcome = outcome,
        !.pause = cooldown_after(outcome, image_gen.call.i, Len(image_gen.call.prompts)),
        !.i = @ + 1]

\* lines 116-121 and 133-135: the image is saved under the file name of index i
ImageSaved ==
    /\ image_gen.pc = "call"
    /\ LET name == filename(part_number, image_gen.call.i)
       IN image_gen' = [image_gen EXCEPT
                          !.pc = "loop",
                          !.images_dir = @ \cup {name},
                          !.call = [AfterCall("saved") EXCEPT
                                      !.success_count = @ + 1,
                                      !.saved = @ \cup {<<image_gen.call.i + 1, name>>}]]
    /\ UNCHANGED <<assembler_vars, gen_vars, split, script_gen, job>>

\* line 116: the answer holds no image, nothing is saved and nothing raised
NoImageReturned ==
    /\ image_gen.pc = "call"
    /\ image_gen' = [image_gen EXCEPT !.pc = "loop", !.call = AfterCall("empty")]
    /\ UNCHANGED <<assembler_vars, gen_vars, split, script_gen, job>>

\* lines 123-127, 130: RESOURCE_EXHAUSTED or Quota in the message
QuotaError ==
    /\ image_gen.pc = "call"
    /\ image_gen' = [image_gen EXCEPT !.pc = "loop", !.call = AfterCall("quota")]
    /\ UNCHANGED <<assembler_vars, gen_vars, split, script_gen, job>>

\* lines 123-124, 128-130: any other exception, of the call or of the save;
\* a save that raised may have left the file behind
OtherError ==
    /\ image_gen.pc = "call"
    /\ \E left \in SUBSET {filename(part_number, image_gen.call.i)} :
         image_gen' = [image_gen EXCEPT
                          !.pc = "loop",
                          !.images_dir = @ \cup left,
                          !.call = AfterCall("error")]
    /\ UNCHANGED <<assembler_vars, gen_vars, split, script_gen, job>>

\* lines 137-138: return success_count > 0
Return ==
    /\ image_gen.pc = "loop"
    /\ image_gen.call.i >= Len(image_gen.call.prompts)
    /\ image_gen' = [image_gen EXCEPT
                       !.pc = "returned",
                       !.call.returned = IF image_gen.call.success_count > 0
                                         THEN "True" ELSE "False"]
    /\ UNCHANGED <<assembler_vars, gen_vars, split, script_gen, job>>

NextSaveImages ==
    \/ SkipMalformed
    \/ CallGenerate
    \/ ImageSaved
    \/ NoImageReturned
    \/ QuotaError
    \/ OtherError
    \/ Return

SpecSaveImages == InitSaveImages /\ [][NextSaveImages]_vars

\* every step is eventually taken: a call to the service answers or raises,
\* a sleep ends
SpecSaveImagesFair == SpecSaveImages /\ WF_vars(NextSaveImages)

\* main, lines 168-181: the chunk files are globbed and sorted; images of an
\* earlier run may be in the images directory
InitImages ==
    /\ AssemblerInit
    /\ GeneratorInit
    /\ split = NotRunning
    /\ script_gen = NotRunning
    /\ job = NotRunning
    /\ \E found \in SUBSET ImagePartNames, with_image \in SUBSET ImagePartNames :
         /\ found # {}
         /\ Cardinality(found) <= MaxStageParts
         /\ \E listing \in Orderings(found) :
              image_gen = [pc |-> "main",
                           chunk_files |-> [k \in 1..Len(listing) |->
                                               chunk_name(natsorted(listing)[k])],
                           c |-> 1,
                           images_dir |-> {image_name(q, 1) : q \in with_image},
                           images_at_start |-> {image_name(q, 1) : q \in with_image},
                           answered |-> {},
                           prompted |-> {},
                           generated |-> {},
                           made_from |-> {},
                           segment |-> <<>>]

InMainLoop ==
    /\ image_gen.pc = "main"
    /\ image_gen.c <= Len(image_gen.chunk_files)

never_existing == {}

\* lines 186-187
existing_images == images_of(part_number, image_gen.images_dir)

\* lines 189-194: images exist and the answer is not 'y': the part is skipped
SkipPart ==
    /\ InMainLoop
    /\ existing_images # {}
    /\ \E user_input \in Answers :
         /\ lower(user_input) # "y"
         /\ image_gen' = [image_gen EXCEPT
                            !.answered = @ \cup {<<part_number, user_input>>},
                            !.c = @ + 1]
    /\ UNCHANGED <<assembler_vars, gen_vars, split, script_gen, job>>

\* the answers that let the part be processed: no question without images
go_ahead == IF existing_images = {} THEN {"-"} ELSE {a \in Answers : lower(a) = "y"}

\* lines 196-207 with the whole of generate_and_save_images: the chunk is
\* read, the prompts are asked for, generate_images is called for every
\* well-formed prompt and each call leaves the file of its index or nothing
ProcessPart ==
    /\ InMainLoop
    /\ \E user_input \in go_ahead, n \in 1..MaxPrompts :
       \E image_prompts \in [1..n -> PromptItems] :
       \E files \in SUBSET {i \in 0..(n - 1) : well_formed(image_prompts[i + 1])} :
         image_gen' = [image_gen EXCEPT
                         !.answered = IF user_input = "-" THEN @
                                      ELSE @ \cup {<<part_number, user_input>>},
                         !.prompted = @ \cup {part_number},
                         !.generated = IF \E k \in 1..n : well_formed(image_prompts[k])
                                       THEN @ \cup {part_number} ELSE @,
                         !.images_dir = @ \cup {filename(part_number, i) : i \in files},
                         !.made_from = @ \cup {<<filename(part_number, i), chunk_path>> :
                                                  i \in files},
                         !.c = @ + 1]
    /\ UNCHANGED <<assembler_vars, gen_vars, split, script_gen, job>>

\* lines 200-207: no prompts came back (an error or an empty list): nothing
\* is generated for the part
NoPrompts ==
    /\ InMainLoop
    /\ \E user_input \in go_ahead :
         image_gen' = [image_gen EXCEPT
                         !.answered = IF user_input = "-" THEN @
                                      ELSE @ \cup {<<part_number, user_input>>},
                         !.prompted = @ \cup {part_number},
                         !.c = @ + 1]
    /\ UNCHANGED <<assembler_vars, gen_vars, split, script_gen, job>>

\* line 209: every chunk was looked at
StageDone ==
    /\ image_gen.pc = "main"
    /\ image_gen.c > Len(image_gen.chunk_files)
    /\ image_gen' = [image_gen EXCEPT !.pc = "done"]
    /\ UNCHANGED <<assembler_vars, gen_vars, split, script_gen, job>>

\* video_assembler.py lines 149-153 on the directories the stages left: the
\* audio file a chunk was narrated into, the part number taken from its name,
\* the images the pattern matches
DiscoverPart ==
    /\ image_gen.pc = "done"
    /\ \E k \in 1..Len(image_gen.chunk_files) :
         LET audio_path == audio_path_of(image_gen.chunk_files[k])
             part == replace(replace(audio_path, "audio_part_"), ".wav")
         IN image_gen' = [image_gen EXCEPT
                            !.pc = "discovered",
                            !.segment = <<[part |-> part,
                                           audio_path |-> audio_path,
                                           audio_from |-> image_gen.chunk_files[k],
                                           image_paths |-> images_of(part, image_gen.images_dir)]>>]
    /\ UNCHANGED <<assembler_vars, gen_vars, split, script_gen, job>>

NextImages ==
    \/ SkipPart
    \/ ProcessPart
    \/ NoPrompts
    \/ StageDone
    \/ DiscoverPart

SpecImages == InitImages /\ [][NextImages]_vars

InCall == image_gen.pc \in {"loop", "call", "returned"}

\* the 1-based positions of the well-formed items of the prompt list
WellFormedPositions ==
    {k \in 1..Len(image_gen.call.prompts) : well_formed(image_gen.call.prompts[k])}

SavedPositions == {pair[1] : pair \in image_gen.call.saved}

\* the position of the last generation call that has answered or raised
LastFinished ==
    LET attempts == image_gen.call.attempts
    IN IF image_gen.pc = "call" THEN attempts[Len(attempts) - 1]
       ELSE attempts[Len(attempts)]

C28_Inv ==
    InCall =>
        LET call == image_gen.call
        IN /\ \A a, b \in 1..Len(call.attempts) :
                a < b => call.attempts[a] < call.attempts[b]
           /\ Range(call.attempts) \subseteq WellFormedPositions
           /\ \A k \in WellFormedPositions : k <= call.i => k \in Range(call.attempts)
           /\ image_gen.pc = "returned" => Range(call.attempts) = WellFormedPositions
           /\ \A pair \in call.saved :
                /\ pair[2] = <<"image_part_">> \o part_number \o <<"_img_">>
                                \o Str(Digits(pair[1])) \o <<".png">>
                /\ pair[2] \in image_gen.images_dir
           /\ image_gen.pc = "returned" =>
                (call.returned = "True" <=> call.saved # {})

\* C28: generate_and_save_images calls the service once for each well-formed
\* prompt, in list order, and returns; the image of the prompt at position k
\* is saved as image_part_<p>_img_<k> whatever happened to the prompts before
\* it; it returns True exactly when at least one image was saved.
C28_EachPromptOnce ==
    /\ []C28_Inv
    /\ (image_gen.pc = "loop") ~> (image_gen.pc = "returned")

\* the first prompt failed, the second was saved as image 2, True was returned
C28_Witness ==
    /\ image_gen.pc = "returned"
    /\ image_gen.call.attempts = <<1, 2>>
    /\ SavedPositions = {2}
    /\ image_gen.call.returned = "True"

\* C21: in generate_and_save_images a quota error on an image drops it and is
\* followed by a 60 second sleep before the next generation call; any other
\* error drops the image with no sleep; no image is attempted twice and the
\* prompts after a failed one are still attempted.
C21_CooldownThenContinue ==
    InCall =>
        LET call == image_gen.call
        IN /\ call.last_outcome = "quota" => call.pause = 60
           /\ call.last_outcome = "error" => call.pause = 0
           /\ call.last_outcome \in {"quota", "error"} => LastFinished \notin SavedPositions
           /\ \A a, b \in 1..Len(call.attempts) :
                a # b => call.attempts[a] # call.attempts[b]
           /\ image_gen.pc = "returned" => WellFormedPositions \subseteq Range(call.attempts)

\* the call for the second prompt is made after the first hit the quota
C21_Witness ==
    /\ image_gen.pc = "call"
    /\ image_gen.call.attempts = <<1, 2>>
    /\ image_gen.call.last_outcome = "quota"
    /\ image_gen.call.pause = 60

\* the names written by this run of the stage
Written == {pair[1] : pair \in image_gen.made_from}

\* a part with images at the start was worked on: prompts were asked for,
\* an image was asked for, or one of its files was written
Touched(p) ==
    \/ p \in image_gen.prompted
    \/ p \in image_gen.generated
    \/ images_of(p, Written) # {}

StageParts == {part_num_str_of(image_gen.chunk_files[k]) : k \in 1..Len(image_gen.chunk_files)}

LookedAt == {part_num_str_of(image_gen.chunk_files[k]) : k \in 1..(image_gen.c - 1)}

\* C29 (as claimed): a part that has an image is left alone unless the user
\* typed exactly y; a part without images is always processed.
C29_SkipUnlessY ==
    image_gen.pc # "idle" =>
        /\ \A p \in StageParts :
             (images_of(p, image_gen.images_at_start) # {} /\ Touched(p))
                 => <<p, "y">> \in image_gen.answered
        /\ \A p \in LookedAt :
             images_of(p, image_gen.images_at_start) = {} => p \in image_gen.prompted

\* C29 (amended): a part that has an image is left alone (no prompt call, no
\* generation call, no file written) unless the user's answer, lowercased, is
\* y; a part without images is always processed.
C29_SkipUnlessYLowered ==
    image_gen.pc # "idle" =>
        /\ \A p \in StageParts :
             (images_of(p, image_gen.images_at_start) # {} /\ Touched(p))
                 => \E a \in Answers : lower(a) = "y" /\ <<p, a>> \in image_gen.answered
        /\ \A p \in LookedAt :
             images_of(p, image_gen.images_at_start) = {} => p \in image_gen.prompted

\* one part was skipped on the answer n, another was generated
C29_Witness ==
    /\ image_gen.pc = "done"
    /\ \E p \in StageParts :
         /\ <<p, "n">> \in image_gen.answered
         /\ ~Touched(p)
         /\ images_of(p, image_gen.images_dir) # {}
    /\ image_gen.generated # {}

\* the part number in an image file name: what stands between image_part_
\* and _img_
ImagePartOf(name) ==
    SubSeq(name, 2, (CHOOSE k \in 1..Len(name) : name[k] = "_img_") - 1)

\* C26: the assembler builds the segment of part p from audio_part_<p> and
\* only from images whose name carries the part number p, never those of a
\* part whose number starts with p; the audio and the images written for
\* part p were generated from the chunk file chunk_<p>.
C26_CorrelatedByPart ==
    image_gen.pc = "discovered" =>
        LET seg == image_gen.segment[1]
        IN /\ seg.audio_path = <<"audio_part_">> \o seg.part \o <<".wav">>
           /\ seg.audio_from = <<"chunk_">> \o seg.part \o <<".txt">>
           /\ \A name \in image_gen.images_dir :
                name \in seg.image_paths <=> ImagePartOf(name) = seg.part
           /\ \A pair \in image_gen.made_from :
                pair[1] \in seg.image_paths => pair[2] = seg.audio_from

\* part 1 is assembled from its own image while part 10 has images too
C26_Witness ==
    /\ image_gen.pc = "discovered"
    /\ image_gen.segment[1].part = <<"1">>
    /\ image_gen.segment[1].image_paths # {}
    /\ images_of(<<"1", "0">>, Written) # {}
    /\ images_of(<<"1">>, Written) # {}

====
